---- MODULE Spec2Model ----
(***************************************************************************)
(* A model of shampoo/model/lorenzmie.py: the Lorenz-Mie hologram          *)
(* calculator (Nstop, shift, sphere_coefficients, sphericalfield,          *)
(* lorenz_mie_field_spherical/_cartesian, suppress_hologram).              *)
(*                                                                         *)
(* Arrays are functions over 0..L-1, so that indices are the source's.     *)
(* Real inputs are rationals over a fixed denominator; the values of the   *)
(* recurrences (sin, exp, complex quotients) are abstracted to provenance  *)
(* tags, see the section on sphere_coefficients.                           *)
(***************************************************************************)
EXTENDS Integers, Sequences, FiniteSets, TLC

VARIABLES
    pc,         \* position of the running call
    sh_a,       \* shift: the input array a
    sh_steps,   \* shift: the argument steps
    sh_b,       \* shift: [err, b], the returned array b or an IndexError
    ns_x1,      \* Nstop: numerator of the first size parameter (over XDen)
    ns_x2,      \* Nstop: numerator of the second size parameter (over XDen)
    ns_m,       \* Nstop: relative index m = <<re, im>> over MDen
    ns_r1,      \* Nstop(x1, m)
    ns_r2,      \* Nstop(x2, m)
    co_x,       \* sphere_coefficients: numerator of the size parameter x (over XDen)
    co_m,       \* relative index m = <<re, im>> over MDen
    co_q0,      \* class of the quotient the coefficient loop computes at order 0
    co_nmax,    \* nmax = Nstop(x, m)
    co_mem,     \* the order-indexed arrays, by name
    co_i,       \* position of the running loop in its range (1 = first pass)
    co_oob,     \* accesses <<array, index>> that fell outside the array
    co_wr,      \* per array, the indices assigned so far
    co_seed,    \* per downward recurrence, the index its first pass read
    co_reads,   \* the orders n whose ab[., n] sphericalfield has read, in order
    ho_dim,     \* hologram: dim = <<nx, ny>>
    ho_rp,      \* the sphere's position <<rp[0], rp[1]>>
    ho_alpha,   \* alpha
    ho_phase,   \* exp(-k (zp + delta) 1j), a complex number of modulus 1
    ho_es,      \* what spherefield returns: per point, the 3 field components
    ho_grid,    \* the evaluation grid meshgrid built
    ho_field,   \* what lorenz_mie_field_spherical returns: (3, npts)
    ho_out,     \* the hologram lorenz_mie_field_cartesian returns
    su_rp,      \* suppress_hologram: the centroid <<rp[0], rp[1]>>
    su_h,       \* the hologram passed in
    su_s1,      \* suppress_hologram(rp, h), or ShapeMismatch
    su_s2       \* suppress_hologram(rp, suppress_hologram(rp, h))

shVars == <<sh_a, sh_steps, sh_b>>
nsVars == <<ns_x1, ns_x2, ns_m, ns_r1, ns_r2>>

coVars == <<co_x, co_m, co_q0, co_nmax, co_mem, co_i, co_oob, co_wr, co_seed, co_reads>>

hoVars == <<ho_dim, ho_rp, ho_alpha, ho_phase, ho_es, ho_grid, ho_field, ho_out>>

suVars == <<su_rp, su_h, su_s1, su_s2>>

vars == <<pc, shVars, nsVars, coVars, hoVars, suVars>>

None == "none"

\* dcomplexarr / np.zeros: an array of length L holding v everywhere
Arr(L, v) == [i \in 0..(L - 1) |-> v]

Len0(a) == Cardinality(DOMAIN a)

Max2(p, q) == IF p >= q THEN p ELSE q

(***************************************************************************)
(* shift(a, steps)                                                         *)
(***************************************************************************)
\* bounds of the shift inputs
MaxLen == 3
MaxSteps == 7
MaxVal == 2

\* numpy integer indexing of a length-L axis: -L..L-1 are valid
IndexOk(k, L) == -L <= k /\ k < L

\* a negative index counts from the end
IndexNorm(k, L) == IF k < 0 THEN k + L ELSE k

\* the index of a that shift reads for b[i] (the two ifs exclude each other)
ShiftSrc(i, steps, L) == IF i >= steps THEN i - steps ELSE i + (L - steps)

\* some read of a falls outside a
ShiftOutOfRange(L, steps) == \E i \in 0..(L - 1) : ~IndexOk(ShiftSrc(i, steps, L), L)

\* shift's result; g stands for whatever an unchecked out-of-range read returns
ShiftWith(a, steps, g) ==
    LET L == Len0(a)
    IN  [i \in 0..(L - 1) |->
            LET k == ShiftSrc(i, steps, L)
            IN  IF IndexOk(k, L) THEN a[IndexNorm(k, L)] ELSE g]

\* shift on inputs whose reads are all in range
shift(a, steps) == ShiftWith(a, steps, 0)

ShiftInputs == UNION {[0..(L - 1) -> 1..MaxVal] : L \in 1..MaxLen}

NstopIdle == ns_x1 = 0 /\ ns_x2 = 0 /\ ns_m = <<0, 0>> /\ ns_r1 = None /\ ns_r2 = None

SuppressIdle == su_rp = <<0, 0>> /\ su_h = None /\ su_s1 = None /\ su_s2 = None

HoloIdle ==
    /\ ho_dim = <<0, 0>> /\ ho_rp = <<0, 0>> /\ ho_alpha = 0 /\ ho_phase = None /\ ho_es = <<>>
    /\ ho_grid = None /\ ho_field = <<>> /\ ho_out = None

CoefIdle ==
    /\ co_x = 0 /\ co_m = <<0, 0>> /\ co_q0 = None /\ co_nmax = 0 /\ co_mem = <<>>
    /\ co_i = 0 /\ co_oob = {} /\ co_wr = <<>> /\ co_seed = <<>> /\ co_reads = <<>>

ShiftIdle == sh_a = <<>> /\ sh_steps = 0 /\ sh_b = None

ShiftInit ==
    /\ pc = "shift_call"
    /\ sh_a \in ShiftInputs
    /\ sh_steps \in (-MaxSteps)..MaxSteps
    /\ sh_b = None
    /\ NstopIdle
    /\ CoefIdle
    /\ HoloIdle
    /\ SuppressIdle

\* every read in range: the indexed copy
ShiftReturn ==
    /\ pc = "shift_call"
    /\ ~ShiftOutOfRange(Len0(sh_a), sh_steps)
    /\ sh_b' = [err |-> FALSE, b |-> shift(sh_a, sh_steps)]
    /\ pc' = "shift_done"
    /\ UNCHANGED <<sh_a, sh_steps, nsVars, coVars, hoVars, suVars>>

\* a read out of range, bounds checked (the interpreter): IndexError
ShiftRaise ==
    /\ pc = "shift_call"
    /\ ShiftOutOfRange(Len0(sh_a), sh_steps)
    /\ sh_b' = [err |-> TRUE, b |-> <<>>]
    /\ pc' = "shift_done"
    /\ UNCHANGED <<sh_a, sh_steps, nsVars, coVars, hoVars, suVars>>

\* a read out of range, unchecked (jit(nopython=True)): any value comes back
ShiftUnchecked ==
    /\ pc = "shift_call"
    /\ ShiftOutOfRange(Len0(sh_a), sh_steps)
    /\ \E g \in 0..MaxVal : sh_b' = [err |-> FALSE, b |-> ShiftWith(sh_a, sh_steps, g)]
    /\ pc' = "shift_done"
    /\ UNCHANGED <<sh_a, sh_steps, nsVars, coVars, hoVars, suVars>>

ShiftNext == ShiftReturn \/ ShiftRaise \/ ShiftUnchecked

SpecShift == ShiftInit /\ [][ShiftNext]_vars

\* C7: shift(a, steps) is a modular rotate for every integer steps: the result
\* has a's length, result[i] = a[(i - steps) mod L] with no out-of-range read,
\* and shift(a, 1) puts a[L-1] at 0 and a[i-1] at i >= 1.
C7_ShiftIsRotate ==
    pc = "shift_done" =>
        /\ ~sh_b.err
        /\ DOMAIN sh_b.b = DOMAIN sh_a
        /\ ~ShiftOutOfRange(Len0(sh_a), sh_steps)
        /\ \A i \in DOMAIN sh_a : sh_b.b[i] = sh_a[(i - sh_steps) % Len0(sh_a)]
        /\ sh_steps = 1 =>
              /\ sh_b.b[0] = sh_a[Len0(sh_a) - 1]
              /\ \A i \in 1..(Len0(sh_a) - 1) : sh_b.b[i] = sh_a[i - 1]

(***************************************************************************)
(* Nstop(x, m)                                                             *)
(*                                                                         *)
(* x = xn / XDen and m = (re + i im) / MDen.  floor(x + c x^(1/3) + k) is  *)
(* the largest integer n with (n - k - x) / c <= x^(1/3), decided on       *)
(* integers by cubing both sides.                                          *)
(***************************************************************************)
\* denominators of the rational inputs, and the spread of the sampled x
XDen == 4
MDen == 2
XSpan == 3
MaxM == 4

\* the constants of Wiscombe's criterion
XSmall == 8
XLarge == 4200
XLargeLow == 4199
CoefNum == 4
CoefDen == 1
CoefMidNum == 81
CoefMidDen == 20
AddSmall == 1
AddMid == 2
AddLarge == 2
YangMargin == 15

\* floor(num * t / den) for t >= 0, in steps that stay within 32 bits
FloorMulDiv(t, num, den) ==
    LET qn == num \div den
        rn == num % den
    IN  qn * t + rn * (t \div den) + (rn * (t % den)) \div den

Cube(d) == d * d * d

\* n <= x + (cn/cd) x^(1/3) + k, for x = xn / XDen > 0
WiscombeLeq(n, xn, cn, cd, k) ==
    LET d == (n - k) * XDen - xn
    IN  d <= 0 \/ Cube(d) <= FloorMulDiv(xn * XDen * XDen, Cube(cn), Cube(cd))

\* np.floor(xl + c * xl ** (1. / 3.) + k)
WiscombeFloor(xn, cn, cd, k) ==
    LET lo == xn \div XDen + k
        hi == lo + 1 + (xn \div XDen + 1) * (cn \div cd + 1)
    IN  CHOOSE n \in lo..hi : WiscombeLeq(n, xn, cn, cd, k) /\ ~WiscombeLeq(n + 1, xn, cn, cd, k)

\* Ns with its first test inverted (xl > 8.)
MutNs(xn) ==
    IF xn > XSmall * XDen THEN WiscombeFloor(xn, CoefNum, CoefDen, AddSmall)
    ELSE IF xn < XLarge * XDen THEN WiscombeFloor(xn, CoefMidNum, CoefMidDen, AddMid)
    ELSE IF xn > XLargeLow * XDen THEN WiscombeFloor(xn, CoefNum, CoefDen, AddLarge)
    ELSE None

\* the three branches of Wiscombe (1980), in the order the code tests them;
\* ns stays unbound when none is taken
Ns(xn) ==
    IF xn < XSmall * XDen THEN WiscombeFloor(xn, CoefNum, CoefDen, AddSmall)
    ELSE IF xn < XLarge * XDen THEN WiscombeFloor(xn, CoefMidNum, CoefMidDen, AddMid)
    ELSE IF xn > XLargeLow * XDen THEN WiscombeFloor(xn, CoefNum, CoefDen, AddLarge)
    ELSE None

\* integer square root
Isqrt(v) == CHOOSE k \in 0..v : k * k <= v /\ (k + 1) * (k + 1) > v

\* the inputs m whose modulus is rational: |m| = CAbsNum(m) / MDen
NormSq(m) == m[1] * m[1] + m[2] * m[2]
CAbsNum(m) == Isqrt(NormSq(m))
RationalModulus(m) == CAbsNum(m) * CAbsNum(m) = NormSq(m)

\* floor(abs(x * m)) = floor(x |m|), x > 0
FloorAbsXM(xn, m) == (xn * CAbsNum(m)) \div (XDen * MDen)

\* Yang (2003) Eq. (30): int(floor(max(ns, |x m|)) + 15); ns is an integer
Nstop(xn, m) == Max2(Ns(xn), FloorAbsXM(xn, m)) + YangMargin

\* sampled size parameters: near 0, around x = 8 and around x = 4200
NstopXs ==
    (1..XSpan) \cup ((XSmall * XDen - XSpan)..(XSmall * XDen + XSpan))
               \cup ((XLarge * XDen - XSpan)..(XLarge * XDen + XSpan))

NstopMs == {m \in (0..MaxM) \X (0..MaxM) : RationalModulus(m)}

NstopInit ==
    /\ pc = "nstop_call"
    /\ ns_x1 \in NstopXs
    /\ ns_x2 \in NstopXs
    /\ ns_m \in NstopMs
    /\ ns_r1 = None
    /\ ns_r2 = None
    /\ ShiftIdle
    /\ CoefIdle
    /\ HoloIdle
    /\ SuppressIdle

\* the two calls Nstop(x1, m) and Nstop(x2, m)
NstopEval ==
    /\ pc = "nstop_call"
    /\ ns_r1' = Nstop(ns_x1, ns_m)
    /\ ns_r2' = Nstop(ns_x2, ns_m)
    /\ pc' = "nstop_done"
    /\ UNCHANGED <<ns_x1, ns_x2, ns_m, shVars, coVars, hoVars, suVars>>

NstopNext == NstopEval

SpecNstop == NstopInit /\ [][NstopNext]_vars

\* C3 as stated: for fixed m, x1 <= x2 implies Nstop(x1, m) <= Nstop(x2, m),
\* for all x > 0 and every m.
C3_NstopMonotone ==
    (pc = "nstop_done" /\ ns_x1 <= ns_x2) => ns_r1 <= ns_r2

\* C3 amended: for fixed m and x1 <= x2, Nstop(x1, m) <= Nstop(x2, m) when
\* x1 and x2 are both below 4200 (on either side of x = 8) or both at least
\* 4200; across x = 4200 the count may drop, by one at most.
C3_NstopMonotoneAmended ==
    (pc = "nstop_done" /\ ns_x1 <= ns_x2) =>
        /\ (ns_x2 < XLarge * XDen \/ ns_x1 >= XLarge * XDen) => ns_r1 <= ns_r2
        /\ ns_r1 <= ns_r2 + 1

\* a pair on opposite sides of x = 8, with |m| <= 1, where the count grows
C3_Witness ==
    /\ pc = "nstop_done"
    /\ ns_x1 < XSmall * XDen
    /\ ns_x2 >= XSmall * XDen
    /\ ns_x2 < XLarge * XDen
    /\ CAbsNum(ns_m) <= MDen
    /\ ns_r1 < ns_r2

(***************************************************************************)
(* sphere_coefficients(ap, n_sphere, nm, lambda_) and the multipole loop   *)
(* of sphericalfield                                                       *)
(*                                                                         *)
(* An array entry is [val, deps]: val is "zero" (the exact 0 of the        *)
(* allocation or of dcomplex(0)), "num" (a computed number) or             *)
(* "nonfinite"; deps is the set of slots <<array, index>> that were read   *)
(* while still holding their allocation zero on the way to this value.     *)
(***************************************************************************)
\* largest numerator of the sampled size parameters
MaxCoefX == 3

CoefNames ==
    {"ab0", "ab1", "D1", "D1_a", "D3", "D3_a", "Psi", "Zeta", "PsiZeta",
     "PsiZeta_a", "Ha", "Hb", "shift_Psi", "shift_Zeta"}

\* range(lo, hi) and s[::-1], as sequences
PyRange(lo, hi) == [k \in 1..Max2(hi - lo, 0) |-> lo + k - 1]

Reversed(s) == [k \in 1..Len(s) |-> s[Len(s) + 1 - k]]

\* the allocated lengths, lines 466-480
AllocLen(name, nmax) ==
    CASE name \in {"D1", "D1_a"} -> nmax + 2
      [] name \in {"shift_Psi", "shift_Zeta"} -> 0
      [] OTHER -> nmax + 1

\* the zero an allocation leaves in slot i of array name
Raw(name, i) == [val |-> "zero", deps |-> {<<name, i>>}]

\* a value assigned from constants and inputs alone (sin(z1), ci, dcomplex(0))
Const(v) == [val |-> v, deps |-> {}]

\* a value computed from the entries ops
Calc(ops) == [val |-> "num", deps |-> UNION {e.deps : e \in ops}]

Alloc(nmax) == [name \in CoefNames |-> [i \in 0..(AllocLen(name, nmax) - 1) |-> Raw(name, i)]]

\* a[i]; an out-of-range read returns some number
Rd(mem, name, i) ==
    IF i \in DOMAIN mem[name] THEN mem[name][i] ELSE [val |-> "num", deps |-> {<<name, i>>}]

\* a[i] = e
Wr(mem, name, i, e) ==
    IF i \in DOMAIN mem[name] THEN [mem EXCEPT ![name][i] = e] ELSE mem

Outside(mem, accs) == {a \in accs : a[2] \notin DOMAIN mem[a[1]]}

Assigned(wr, name, idxs) == [wr EXCEPT ![name] = @ \cup idxs]

\* the loop ranges, in the order the code visits them
D1aOrders(nmax) == Reversed(PyRange(1, nmax + 1))

D1Orders(nmax) == Reversed(PyRange(1, nmax))

\* the upward loop stopping one order early
MutUpOrders(nmax) == PyRange(1, nmax - 1)

UpOrders(nmax) == PyRange(1, nmax)

AbOrders(mem) == PyRange(0, Len0(mem["ab0"]))

\* the multipole loop written range(nc)
MutFieldOrdersFromZero(nc) == PyRange(0, nc)

FieldOrders(nc) == PyRange(1, nc)

\* nc = ab[0, :].shape[0] - 1
FieldNc(mem) == Len0(mem["ab0"]) - 1

CoefInit ==
    /\ pc = "coef_call"
    /\ co_x \in 1..MaxCoefX
    /\ co_m \in NstopMs
    /\ co_q0 \in {"num", "nonfinite"}
    /\ co_nmax = 0
    /\ co_mem = <<>>
    /\ co_i = 0
    /\ co_oob = {}
    /\ co_wr = <<>>
    /\ co_seed = <<>>
    /\ co_reads = <<>>
    /\ ShiftIdle
    /\ NstopIdle
    /\ HoloIdle
    /\ SuppressIdle

\* lines 458-483: nmax = Nstop(x, m) and the allocations
CoefAlloc ==
    /\ pc = "coef_call"
    /\ co_nmax' = Nstop(co_x, co_m)
    /\ co_mem' = Alloc(co_nmax')
    /\ co_wr' = [name \in CoefNames |-> {}]
    /\ co_seed' = [name \in {"D1", "D1_a"} |-> None]
    /\ co_i' = 1
    /\ pc' = "d1a_loop"
    /\ UNCHANGED <<co_x, co_m, co_q0, co_oob, co_reads, shVars, nsVars, hoVars, suVars>>

\* lines 484-485: one pass of the downward recurrence for D1_a
D1aStep ==
    /\ pc = "d1a_loop"
    /\ co_i <= Len(D1aOrders(co_nmax))
    /\ LET n == D1aOrders(co_nmax)[co_i]
       IN  /\ co_mem' = Wr(co_mem, "D1_a", n - 1, Calc({Rd(co_mem, "D1_a", n)}))
           /\ co_oob' = co_oob \cup Outside(co_mem, {<<"D1_a", n - 1>>, <<"D1_a", n>>})
           /\ co_wr' = Assigned(co_wr, "D1_a", {n - 1})
           /\ co_seed' = IF co_i = 1 THEN [co_seed EXCEPT !["D1_a"] = n] ELSE co_seed
    /\ co_i' = co_i + 1
    /\ UNCHANGED <<pc, co_x, co_m, co_q0, co_nmax, co_reads, shVars, nsVars, hoVars, suVars>>

\* lines 487-495: PsiZeta_a[0, 0], D3_a[0, 0], Ha and Hb in the core
CoefCore ==
    /\ pc = "d1a_loop"
    /\ co_i > Len(D1aOrders(co_nmax))
    /\ LET m1 == Wr(co_mem, "PsiZeta_a", 0, Const("num"))
           m2 == Wr(m1, "D3_a", 0, Const("num"))
           src == Len0(co_mem["D1_a"]) - 1
           m3 == [m2 EXCEPT !["Ha"] = [i \in DOMAIN @ |-> Rd(m2, "D1_a", i)]]
           m4 == [m3 EXCEPT !["Hb"] = [i \in DOMAIN @ |-> Rd(m3, "D1_a", i)]]
       IN  /\ co_mem' = m4
           /\ co_oob' = co_oob \cup
                 (IF src = Len0(co_mem["Ha"]) THEN {} ELSE {<<"Ha", src>>, <<"Hb", src>>})
           /\ co_wr' = [co_wr EXCEPT !["PsiZeta_a"] = @ \cup {0}, !["D3_a"] = @ \cup {0},
                                     !["Ha"] = @ \cup DOMAIN co_mem["Ha"],
                                     !["Hb"] = @ \cup DOMAIN co_mem["Hb"]]
    /\ co_i' = 1
    /\ pc' = "d1_loop"
    /\ UNCHANGED <<co_x, co_m, co_q0, co_nmax, co_seed, co_reads, shVars, nsVars, hoVars, suVars>>

\* lines 497-498: one pass of the downward recurrence for D1
D1Step ==
    /\ pc = "d1_loop"
    /\ co_i <= Len(D1Orders(co_nmax))
    /\ LET n == D1Orders(co_nmax)[co_i]
       IN  /\ co_mem' = Wr(co_mem, "D1", n - 1, Calc({Rd(co_mem, "D1", n)}))
           /\ co_oob' = co_oob \cup Outside(co_mem, {<<"D1", n - 1>>, <<"D1", n>>})
           /\ co_wr' = Assigned(co_wr, "D1", {n - 1})
           /\ co_seed' = IF co_i = 1 THEN [co_seed EXCEPT !["D1"] = n] ELSE co_seed
    /\ co_i' = co_i + 1
    /\ UNCHANGED <<pc, co_x, co_m, co_q0, co_nmax, co_reads, shVars, nsVars, hoVars, suVars>>

\* lines 501-504: the closed-form seeds of the upward recurrence
UpSeed ==
    /\ pc = "d1_loop"
    /\ co_i > Len(D1Orders(co_nmax))
    /\ LET m1 == Wr(co_mem, "Psi", 0, Const("num"))
           m2 == Wr(m1, "Zeta", 0, Const("num"))
           m3 == Wr(m2, "PsiZeta", 0, Const("num"))
       IN  co_mem' = Wr(m3, "D3", 0, Const("num"))
    /\ co_wr' = [co_wr EXCEPT !["Psi"] = @ \cup {0}, !["Zeta"] = @ \cup {0},
                              !["PsiZeta"] = @ \cup {0}, !["D3"] = @ \cup {0}]
    /\ co_i' = 1
    /\ pc' = "up_loop"
    /\ UNCHANGED <<co_x, co_m, co_q0, co_nmax, co_oob, co_seed, co_reads, shVars, nsVars, hoVars, suVars>>

\* lines 505-509: one pass of the upward recurrence
UpStep ==
    /\ pc = "up_loop"
    /\ co_i <= Len(UpOrders(co_nmax))
    /\ LET n == UpOrders(co_nmax)[co_i]
           m1 == Wr(co_mem, "Psi", n, Calc({Rd(co_mem, "Psi", n - 1), Rd(co_mem, "D1", n - 1)}))
           m2 == Wr(m1, "Zeta", n, Calc({Rd(m1, "Zeta", n - 1), Rd(m1, "D3", n - 1)}))
           m3 == Wr(m2, "PsiZeta", n,
                    Calc({Rd(m2, "PsiZeta", n - 1), Rd(m2, "D1", n - 1), Rd(m2, "D3", n - 1)}))
           m4 == Wr(m3, "D3", n, Calc({Rd(m3, "D1", n), Rd(m3, "PsiZeta", n)}))
       IN  /\ co_mem' = m4
           /\ co_oob' = co_oob \cup Outside(co_mem,
                 {<<"Psi", n>>, <<"Psi", n - 1>>, <<"D1", n - 1>>, <<"Zeta", n>>,
                  <<"Zeta", n - 1>>, <<"D3", n - 1>>, <<"PsiZeta", n>>,
                  <<"PsiZeta", n - 1>>, <<"D3", n>>, <<"D1", n>>})
           /\ co_wr' = [co_wr EXCEPT !["Psi"] = @ \cup {n}, !["Zeta"] = @ \cup {n},
                                     !["PsiZeta"] = @ \cup {n}, !["D3"] = @ \cup {n}]
    /\ co_i' = co_i + 1
    /\ UNCHANGED <<pc, co_x, co_m, co_q0, co_nmax, co_seed, co_reads, shVars, nsVars, hoVars, suVars>>

\* lines 511-512: shift_Psi = shift(Psi, 1), shift_Zeta = shift(Zeta, 1)
CoefShift ==
    /\ pc = "up_loop"
    /\ co_i > Len(UpOrders(co_nmax))
    /\ LET L == Len0(co_mem["Psi"])
       IN  /\ co_mem' = [co_mem EXCEPT
                 !["shift_Psi"] = ShiftWith(co_mem["Psi"], 1, Const("num")),
                 !["shift_Zeta"] = ShiftWith(co_mem["Zeta"], 1, Const("num"))]
           /\ co_oob' = co_oob \cup
                 {<<nm, ShiftSrc(i, 1, L)>> : nm \in {"Psi", "Zeta"},
                     i \in {j \in 0..(L - 1) : ~IndexOk(ShiftSrc(j, 1, L), L)}}
           /\ co_wr' = [co_wr EXCEPT !["shift_Psi"] = 0..(L - 1), !["shift_Zeta"] = 0..(L - 1)]
    /\ co_i' = 1
    /\ pc' = "ab_loop"
    /\ UNCHANGED <<co_x, co_m, co_q0, co_nmax, co_seed, co_reads, shVars, nsVars, hoVars, suVars>>

\* the quotient of Eq. (5) / Eq. (6) at order n, with H = Ha or Hb
Quotient(mem, H, n, q0) ==
    LET e == Calc({Rd(mem, H, n), Rd(mem, "Psi", n), Rd(mem, "shift_Psi", n),
                   Rd(mem, "Zeta", n), Rd(mem, "shift_Zeta", n)})
    IN  IF n = 0 THEN [e EXCEPT !.val = q0] ELSE e

\* lines 515-521: one pass of the coefficient loop
AbStep ==
    /\ pc = "ab_loop"
    /\ co_i <= Len(AbOrders(co_mem))
    /\ LET n == AbOrders(co_mem)[co_i]
           m1 == Wr(co_mem, "ab0", n, Quotient(co_mem, "Ha", n, co_q0))
       IN  /\ co_mem' = Wr(m1, "ab1", n, Quotient(m1, "Hb", n, co_q0))
           /\ co_oob' = co_oob \cup Outside(co_mem,
                 {<<nm, n>> : nm \in {"ab0", "ab1", "Ha", "Hb", "Psi", "Zeta",
                                       "shift_Psi", "shift_Zeta"}})
           /\ co_wr' = [co_wr EXCEPT !["ab0"] = @ \cup {n}, !["ab1"] = @ \cup {n}]
    /\ co_i' = co_i + 1
    /\ UNCHANGED <<pc, co_x, co_m, co_q0, co_nmax, co_seed, co_reads, shVars, nsVars, hoVars, suVars>>

\* only ab[0, 0] zeroed
MutZeroFirstColumn(mem) == Wr(mem, "ab0", 0, Const("zero"))

\* ab[:, 0] = dcomplex(0)
ZeroFirstColumn(mem) == Wr(Wr(mem, "ab0", 0, Const("zero")), "ab1", 0, Const("zero"))

\* lines 523-525: the first column is zeroed and ab returned
CoefReturn ==
    /\ pc = "ab_loop"
    /\ co_i > Len(AbOrders(co_mem))
    /\ co_mem' = ZeroFirstColumn(co_mem)
    /\ co_oob' = co_oob \cup Outside(co_mem, {<<"ab0", 0>>, <<"ab1", 0>>})
    /\ co_i' = 1
    /\ pc' = "field_loop"
    /\ UNCHANGED <<co_x, co_m, co_q0, co_nmax, co_wr, co_seed, co_reads, shVars, nsVars, hoVars, suVars>>

\* lines 354-388: one pass of the multipole sum, which reads ab[0, n], ab[1, n]
FieldStep ==
    /\ pc = "field_loop"
    /\ co_i <= Len(FieldOrders(FieldNc(co_mem)))
    /\ LET n == FieldOrders(FieldNc(co_mem))[co_i]
       IN  /\ co_reads' = Append(co_reads, n)
           /\ co_oob' = co_oob \cup Outside(co_mem, {<<"ab0", n>>, <<"ab1", n>>})
    /\ co_i' = co_i + 1
    /\ UNCHANGED <<pc, co_x, co_m, co_q0, co_nmax, co_mem, co_wr, co_seed, shVars, nsVars, hoVars, suVars>>

\* lines 393-407: the sum is over; the field is projected and returned
FieldReturn ==
    /\ pc = "field_loop"
    /\ co_i > Len(FieldOrders(FieldNc(co_mem)))
    /\ pc' = "field_done"
    /\ UNCHANGED <<coVars, shVars, nsVars, hoVars, suVars>>

CoefNext ==
    \/ CoefAlloc \/ D1aStep \/ CoefCore \/ D1Step \/ UpSeed \/ UpStep
    \/ CoefShift \/ AbStep \/ CoefReturn \/ FieldStep \/ FieldReturn

SpecCoef == CoefInit /\ [][CoefNext]_vars

Returned == pc \in {"field_loop", "field_done"}

IsPrefix(s, t) == Len(s) <= Len(t) /\ \A k \in 1..Len(s) : s[k] = t[k]

\* C2: the array sphere_coefficients returns has ab[0][0] = 0 and ab[1][0] = 0
\* exactly, whatever the coefficient loop computed at order 0.
C2_FirstColumnZero ==
    Returned => co_mem["ab0"][0].val = "zero" /\ co_mem["ab1"][0].val = "zero"

\* returned, after the loop wrote a non-finite quotient at order 0
C2_Witness ==
    /\ Returned
    /\ co_q0 = "nonfinite"
    /\ 0 \in co_wr["ab0"] /\ 0 \in co_wr["ab1"]

\* C8: every read or write of an order-indexed array is inside the array, and
\* the multipole sum reads ab[., n] for n = 1, 2, ..., N-1 in increasing order
\* and never for n = 0.
C8_IndicesInRange ==
    /\ co_oob = {}
    /\ IsPrefix(co_reads, PyRange(1, co_nmax))
    /\ pc = "field_done" => co_reads = PyRange(1, co_nmax)

\* the sum is over, having read the N - 1 orders
C8_Witness ==
    /\ pc = "field_done"
    /\ Len(co_reads) = co_nmax - 1
    /\ co_reads[1] = 1
    /\ \A nm \in CoefNames : co_wr[nm] # {}

\* C9: both downward recurrences start from the zero seed at index N+1 of an
\* array of length N+2 and assign every index from N down to 0.
C9_SameDownwardRange ==
    pc \in {"up_loop", "ab_loop", "field_loop", "field_done"} =>
        \A nm \in {"D1_a", "D1"} :
            /\ Len0(co_mem[nm]) = co_nmax + 2
            /\ co_seed[nm] = co_nmax + 1
            /\ co_wr[nm] = 0..co_nmax

\* the slots a downward recurrence starts from
SeedSlots == {<<nm, co_seed[nm]>> : nm \in {"D1_a", "D1"}}

\* C10: every coefficient the field evaluator consumes was computed from
\* assigned entries only, the top seed of a downward recurrence apart; the
\* entries built from never-assigned slots (order 0 through the wrapped shift,
\* order N through Psi[N], Zeta[N]) are never consumed.
C10_DefBeforeUse ==
    /\ \A k \in 1..Len(co_reads) :
          /\ co_reads[k] \notin {0, co_nmax}
          /\ \A nm \in {"ab0", "ab1"} : Rd(co_mem, nm, co_reads[k]).deps \subseteq SeedSlots
    /\ Returned =>
          \A nm \in {"ab0", "ab1"} :
              {<<"Psi", co_nmax>>, <<"Zeta", co_nmax>>} \subseteq co_mem[nm][co_nmax].deps
    /\ (pc = "ab_loop" /\ co_i > 1) =>
          \A nm \in {"ab0", "ab1"} :
              {<<"Psi", co_nmax>>, <<"Zeta", co_nmax>>} \subseteq co_mem[nm][0].deps

\* the sum is over: it consumed orders 1..N-1, and order N holds a value built
\* from the never-assigned Psi[N]
C10_Witness ==
    /\ pc = "field_done"
    /\ Len(co_reads) = co_nmax - 1
    /\ <<"Psi", co_nmax>> \in co_mem["ab0"][co_nmax].deps
    /\ co_nmax \notin co_wr["Psi"]

(***************************************************************************)
(* meshgrid, lorenz_mie_field_spherical, lorenz_mie_field_cartesian        *)
(*                                                                         *)
(* A 2D array is [shape, data]: data is the C-order buffer, so a[i][j] is  *)
(* data[i * shape[2] + j] and reshape keeps data.  Complex numbers are     *)
(* records of two integers, or NaN.     spherefield's result is an       *)
(* input: any finite or non-finite field at every point.                   *)
(***************************************************************************)
\* largest image side
MaxDim == 2

\* a complex number; a real number is one with im = 0
Cx(re, im) == [re |-> re, im |-> im, fin |-> TRUE]

NaN == [re |-> 0, im |-> 0, fin |-> FALSE]

Alphas == {0, 1, 2}

\* sampled sphere positions <<rp[0], rp[1]>>
Centroids == {<<0, 0>>, <<1, 0>>}

\* exp(-k (zp + delta) 1j) at four depths
Phases == {Cx(1, 0), Cx(0, 1), Cx(-1, 0), Cx(0, -1)}

\* the field vectors spherefield may give a point
FiniteVec == <<Cx(1, 2), Cx(0, -1), Cx(2, 0)>>

FieldVecs == {FiniteVec, <<NaN, Cx(0, 1), Cx(1, 1)>>}

IsFinite(z) == z.fin

CAdd(z, w) == IF z.fin /\ w.fin THEN Cx(z.re + w.re, z.im + w.im) ELSE NaN

CMul(z, w) ==
    IF z.fin /\ w.fin THEN Cx(z.re * w.re - z.im * w.im, z.re * w.im + z.im * w.re) ELSE NaN

CConj(z) == IF z.fin THEN Cx(z.re, -z.im) ELSE NaN

CReal(z) == IF z.fin THEN Cx(z.re, 0) ELSE NaN

\* a[i][j] of a 2D array
At(a, i, j) == a.data[i * a.shape[2] + j]

\* meshgrid(xrange, yrange): both results have shape (len(yrange), len(xrange)),
\* x[i, j] = xrange[j] and y[i, j] = yrange[i]
meshgrid(xrange, yrange) ==
    LET R == Len0(yrange)
        K == Len0(xrange)
    IN  [shape |-> <<R, K>>,
         x |-> [p \in 0..(R * K - 1) |-> xrange[p % K]],
         y |-> [p \in 0..(R * K - 1) |-> yrange[p \div K]]]

\* np.arange(n) - c
ArangeMinus(n, c) == [i \in 0..(n - 1) |-> i - c]

\* the incident wave added to every component (field += 1.)
MutAddIncident(c, z) == CAdd(z, Cx(1, 0))

\* field[0, :] += 1.
AddIncident(c, z) == IF c = 0 THEN CAdd(z, Cx(1, 0)) ELSE z

\* lines 138-140 at one point: scale, add the incident wave, field * conj(field)
Intensity(c, e, alpha, phase) ==
    LET f == AddIncident(c, CMul(CMul(Cx(alpha, 0), phase), e))
    IN  CMul(f, CConj(f))

\* lorenz_mie_field_spherical: (3, npts); entry p is computed at the point p of
\* the raveled grid, whose coordinates pt = <<x, y>> are kept beside the value
SphericalField(grid, es, alpha, phase) ==
    [c \in 0..2 |-> [p \in DOMAIN es |->
        [v |-> Intensity(c, es[p][c + 1], alpha, phase), pt |-> <<grid.x[p], grid.y[p]>>]]]

\* a = np.sum(field.real, 0); a.reshape((int(nx), int(ny)))
Cartesian(field, dim) ==
    [shape |-> <<dim[1], dim[2]>>,
     data |-> [p \in DOMAIN field[0] |->
        [v |-> CAdd(CAdd(CReal(field[0][p].v), CReal(field[1][p].v)), CReal(field[2][p].v)),
         pt |-> field[0][p].pt]]]

HoloInit ==
    /\ pc = "holo_call"
    /\ ho_dim \in (1..MaxDim) \X (1..MaxDim)
    /\ ho_rp \in Centroids
    /\ ho_alpha \in Alphas
    /\ ho_phase \in Phases
    /\ ho_es \in [0..(ho_dim[1] * ho_dim[2] - 1) -> FieldVecs]
    /\ ho_grid = None
    /\ ho_field = <<>>
    /\ ho_out = None
    /\ ShiftIdle
    /\ NstopIdle
    /\ CoefIdle
    /\ SuppressIdle

\* lines 123-140
HoloSpherical ==
    /\ pc = "holo_call"
    /\ ho_grid' = meshgrid(ArangeMinus(ho_dim[1], ho_rp[1]), ArangeMinus(ho_dim[2], ho_rp[2]))
    /\ ho_field' = SphericalField(ho_grid', ho_es, ho_alpha, ho_phase)
    /\ pc' = "holo_field"
    /\ UNCHANGED <<ho_dim, ho_rp, ho_alpha, ho_phase, ho_es, ho_out, shVars, nsVars, coVars, suVars>>

\* lines 175-178
HoloCartesian ==
    /\ pc = "holo_field"
    /\ ho_out' = Cartesian(ho_field, ho_dim)
    /\ pc' = "holo_done"
    /\ UNCHANGED <<ho_dim, ho_rp, ho_alpha, ho_phase, ho_es, ho_grid, ho_field, shVars, nsVars, coVars, suVars>>

HoloNext == HoloSpherical \/ HoloCartesian

SpecHolo == HoloInit /\ [][HoloNext]_vars

\* C1: for every image_dims (nx, ny), the hologram has the shape of the
\* evaluation grid and element [i][j] is the intensity computed at grid
\* point [i][j].
C1_HologramMatchesGrid ==
    pc = "holo_done" =>
        /\ ho_out.shape = ho_grid.shape
        /\ \A i \in 0..(ho_out.shape[1] - 1), j \in 0..(ho_out.shape[2] - 1) :
              /\ i < ho_grid.shape[1] /\ j < ho_grid.shape[2]
              /\ At(ho_out, i, j).pt =
                    <<ho_grid.x[i * ho_grid.shape[2] + j], ho_grid.y[i * ho_grid.shape[2] + j]>>

\* C4: with alpha = 0 and a finite scattered field at every pixel, every pixel
\* of the hologram is 1.
C4_UnitBackground ==
    (/\ pc = "holo_done"
     /\ ho_alpha = 0
     /\ \A p \in DOMAIN ho_es : \A c \in 1..3 : IsFinite(ho_es[p][c]))
        => \A p \in DOMAIN ho_out.data : ho_out.data[p].v = Cx(1, 0)

\* a hologram of several pixels with alpha = 0 over a finite, non-zero field
C4_Witness ==
    /\ pc = "holo_done"
    /\ ho_alpha = 0
    /\ ho_dim[1] * ho_dim[2] >= 2
    /\ \A p \in DOMAIN ho_es : ho_es[p] = FiniteVec
    /\ \A p \in DOMAIN ho_out.data : ho_out.data[p].v = Cx(1, 0)

(***************************************************************************)
(* suppress_hologram(rp, holo, kernel_radius)                              *)
(*                                                                         *)
(* An image is [shape, data, den]: pixel p is data[p] / den.  The envelope *)
(* exp(-r / 20) + 0.05 is taken to three decimals, EnvNum / EnvDen, and    *)
(* the arithmetic on these rationals is exact.                             *)
(***************************************************************************)
\* largest image side
MaxSide == 3

EnvDen == 1000

PixVals == {0, 2}

\* round(1000 (exp(-sqrt(r2) / 20) + 0.05)) for r2 = 0..18
EnvTable ==
    <<1050, 1001, 982, 967, 955, 944, 935, 926, 918, 911,
      904, 897, 891, 885, 879, 874, 869, 864, 859>>

\* np.exp(-r / 20) + 0.05 with r = np.sqrt(r2)
EnvNum(r2) == EnvTable[r2 + 1]

\* the k-th smallest element of data, k = 1..n
KthSmallest(data, k) ==
    CHOOSE v \in {data[p] : p \in DOMAIN data} :
        /\ Cardinality({p \in DOMAIN data : data[p] < v}) < k
        /\ Cardinality({p \in DOMAIN data : data[p] <= v}) >= k

\* twice np.median(data): the middle element, or the mean of the middle two
Median2(data) ==
    LET n == Len0(data)
    IN  IF n % 2 = 1 THEN 2 * KthSmallest(data, (n + 1) \div 2)
        ELSE KthSmallest(data, n \div 2) + KthSmallest(data, n \div 2 + 1)

\* numpy's rule for a *= b: each axis of b has a's length, or length 1
BroadcastsTo(bshape, ashape) ==
    \A k \in 1..2 : bshape[k] = ashape[k] \/ bshape[k] = 1

\* the element of b that a[i][j] *= ... reads
BroadcastAt(b, bshape, i, j) ==
    b[(IF bshape[1] = 1 THEN 0 ELSE i) * bshape[2] + (IF bshape[2] = 1 THEN 0 ELSE j)]

\* the in-place product of arrays whose shapes do not broadcast raises
ShapeMismatch == [ok |-> FALSE, shape |-> <<0, 0>>, data |-> <<>>, den |-> 0]

\* suppress_hologram without the median subtraction of line 220
MutSuppressNoMedian(rp, holo) ==
    LET g == meshgrid(ArangeMinus(holo.shape[1], rp[1]), ArangeMinus(holo.shape[2], rp[2]))
        env == [p \in DOMAIN g.x |-> EnvNum(g.x[p] * g.x[p] + g.y[p] * g.y[p])]
    IN  IF BroadcastsTo(g.shape, holo.shape)
        THEN [ok |-> TRUE,
              shape |-> holo.shape,
              data |-> [p \in DOMAIN holo.data |->
                  (2 * holo.data[p])
                      * BroadcastAt(env, g.shape, p \div holo.shape[2], p % holo.shape[2])],
              den |-> 2 * holo.den * EnvDen]
        ELSE ShapeMismatch

\* lines 218-228
suppress_hologram(rp, holo) ==
    LET med2 == Median2(holo.data)
        g == meshgrid(ArangeMinus(holo.shape[1], rp[1]), ArangeMinus(holo.shape[2], rp[2]))
        env == [p \in DOMAIN g.x |-> EnvNum(g.x[p] * g.x[p] + g.y[p] * g.y[p])]
    IN  IF BroadcastsTo(g.shape, holo.shape)
        THEN [ok |-> TRUE,
              shape |-> holo.shape,
              data |-> [p \in DOMAIN holo.data |->
                  (2 * holo.data[p] - med2)
                      * BroadcastAt(env, g.shape, p \div holo.shape[2], p % holo.shape[2])],
              den |-> 2 * holo.den * EnvDen]
        ELSE ShapeMismatch

SuppressInit ==
    /\ pc = "sup_call"
    /\ su_rp \in Centroids
    /\ \E R \in 1..MaxSide, K \in 1..MaxSide :
          su_h \in {[ok |-> TRUE, shape |-> <<R, K>>, data |-> d, den |-> 1] :
                        d \in [0..(R * K - 1) -> PixVals]}
    /\ su_s1 = None
    /\ su_s2 = None
    /\ ShiftIdle
    /\ NstopIdle
    /\ CoefIdle
    /\ HoloIdle

\* the first call
SuppressOnce ==
    /\ pc = "sup_call"
    /\ su_s1' = suppress_hologram(su_rp, su_h)
    /\ pc' = "sup_once"
    /\ UNCHANGED <<su_rp, su_h, su_s2, shVars, nsVars, coVars, hoVars>>

\* the second call, on the first one's result
SuppressTwice ==
    /\ pc = "sup_once"
    /\ su_s1.ok
    /\ su_s2' = suppress_hologram(su_rp, su_s1)
    /\ pc' = "sup_twice"
    /\ UNCHANGED <<su_rp, su_h, su_s1, shVars, nsVars, coVars, hoVars>>

SuppressNext == SuppressOnce \/ SuppressTwice

SpecSuppress == SuppressInit /\ [][SuppressNext]_vars

\* C5: for every hologram of shape (rows, cols), rows != cols included,
\* suppress_hologram completes without a shape mismatch and returns an image
\* of the input's shape.
C5_SuppressKeepsShape ==
    pc = "sup_once" => su_s1.ok /\ su_s1.shape = su_h.shape

\* the envelope at the pixel p of an image of shape sh, centroid rp
EnvAt(rp, sh, p) ==
    LET g == meshgrid(ArangeMinus(sh[1], rp[1]), ArangeMinus(sh[2], rp[2]))
    IN  EnvNum(g.x[p] * g.x[p] + g.y[p] * g.y[p])

\* every pixel of the twice-suppressed image is envelope^2 (h - median(h)):
\* data[p] / den = (EnvNum / EnvDen)^2 (2 h[p] - Median2(h)) / 2
TwiceIsEnvelopeSquared ==
    /\ su_s2.ok
    /\ su_s2.den % (2 * EnvDen * EnvDen) = 0
    /\ \A p \in DOMAIN su_h.data :
          su_s2.data[p] =
              (su_s2.den \div (2 * EnvDen * EnvDen))
                  * EnvAt(su_rp, su_h.shape, p) * EnvAt(su_rp, su_h.shape, p)
                  * (2 * su_h.data[p] - Median2(su_h.data))

\* C6 as stated: suppress_hologram applied twice to any square hologram, of
\* odd or even pixel count, gives envelope(r)^2 (h - median(h)) at every pixel.
C6_TwiceIsEnvelopeSquared ==
    (pc = "sup_twice" /\ su_h.shape[1] = su_h.shape[2]) => TwiceIsEnvelopeSquared

\* C6 amended: suppress_hologram applied twice to a square hologram of odd
\* pixel count gives envelope(r)^2 (h - median(h)) at every pixel.
C6_TwiceIsEnvelopeSquaredOdd ==
    (pc = "sup_twice" /\ su_h.shape[1] = su_h.shape[2] /\ (su_h.shape[1] * su_h.shape[2]) % 2 = 1)
        => TwiceIsEnvelopeSquared

\* a 3 x 3 hologram that is not flat, suppressed twice
C6_Witness ==
    /\ pc = "sup_twice"
    /\ su_h.shape = <<3, 3>>
    /\ \E p, q \in DOMAIN su_h.data : su_h.data[p] # su_h.data[q]
    /\ \E p \in DOMAIN su_s2.data : su_s2.data[p] # 0

====
